---------------------------- MODULE Spec2Model ----------------------------
(***************************************************************************)
(* json-relaxed (src/src/lib.rs): fault tolerant extraction of typed       *)
(* values from a serde_json Value.  The library is a set of pure           *)
(* functions: the six accessors of `impl MaybeValue for Value` and the     *)
(* five combinators of `impl Maybe<T>`.  The state machine below picks a   *)
(* document node and a key selector, applies one accessor to them and then *)
(* one combinator to the accessor's result.                                *)
(*                                                                         *)
(* Integers are modelled with a word of Bits bits instead of 64 (TLC's     *)
(* integers are 32 bit wide): i64 is -2^(Bits-1) .. 2^(Bits-1)-1 and u64   *)
(* is 0 .. 2^Bits-1; casts wrap or saturate at these limits exactly as     *)
(* Rust's `as` does at 64 bits.  A str is the sequence of its chars' code   *)
(* points.  f64 values are sign and magnitude in halves (0.5 steps).       *)
(***************************************************************************)
EXTENDS Integers, Sequences, FiniteSets, TLC

VARIABLES node,    \* `self` of the accessor call: a serde_json Value
          key,     \* the key selector (impl Index): a string key or an index
          call,    \* the accessor applied, with its target type T
          result,  \* the Maybe<T> the accessor returned
          out      \* the combinator applied to result, with what it returned

vars == <<node, key, call, result, out>>

(***************************** bounds **************************************)
\* width of the machine word standing for 64 bits
Bits == 7
\* longest list stored in a document
MaxArr == 3

I64_MAX == 2^(Bits - 1) - 1
I64_MIN == -(2^(Bits - 1))
U64_MAX == 2^Bits - 1
Two64 == 2^Bits

(************************ serde_json::Value ********************************)
Value_Null == [t |-> "Null"]
Bool(b) == [t |-> "Bool", b |-> b]
\* serde_json::Number is PosInt(u64) | NegInt(i64, always negative) | Float(f64, finite)
PosInt(v) == [t |-> "Number", n |-> [k |-> "PosInt", v |-> v]]
NegInt(v) == [t |-> "Number", n |-> [k |-> "NegInt", v |-> v]]
\* the f64 (-1)^neg * mag / 2
Float(neg, mag) == [t |-> "Number", n |-> [k |-> "Float", neg |-> neg, mag |-> mag]]
String(s) == [t |-> "String", s |-> s]
Array(a) == [t |-> "Array", a |-> a]
Object(o) == [t |-> "Object", o |-> o]

StrKey(name) == [kind |-> "str", name |-> name]
IdxKey(i) == [kind |-> "idx", idx |-> i]

\* Value::get(index): a string key finds a member of an object, a usize index an
\* element of an array (0-based); anything else finds nothing.
None == [some |-> FALSE]
Some(v) == [some |-> TRUE, v |-> v]

get(self, k) ==
    IF k.kind = "str"
    THEN IF self.t = "Object" /\ k.name \in DOMAIN self.o
         THEN Some(self.o[k.name]) ELSE None
    ELSE IF self.t = "Array" /\ k.idx < Len(self.a)
         THEN Some(self.a[k.idx + 1]) ELSE None

(************************ Number and str helpers ***************************)
is_i64(n) == CASE n.k = "PosInt" -> n.v <= I64_MAX
               [] n.k = "NegInt" -> TRUE
               [] OTHER -> FALSE

is_u64(n) == n.k = "PosInt"

is_f64(n) == n.k = "Float"

\* Number::as_i64 and Number::as_u64 where is_i64, is_u64 hold
as_i64(n) == n.v

as_u64(n) == n.v

\* `u64 as i64`: same bits, read as two's complement
u64_as_i64(v) == IF v > I64_MAX THEN v - Two64 ELSE v

\* [mutant] a cast that keeps the signed value
i64_as_u64_keep(v) == v

\* `i64 as u64`: same bits, read as unsigned
i64_as_u64(v) == v % Two64

\* `f64 as i64`: truncates toward zero and saturates at the type's limits
f64_as_i64(f) ==
    LET q == f.mag \div 2
        v == IF f.neg THEN -q ELSE q
    IN IF v > I64_MAX THEN I64_MAX ELSE IF v < I64_MIN THEN I64_MIN ELSE v

\* `f64 != 0.0` (-0.0 equals 0.0)
f64_nonzero(f) == f.mag # 0

\* A str is a sequence of chars and a char is its Unicode code point.  Ascii
\* lists the printable ASCII characters from U+0020: Ch("a") is the char 'a'
\* and Str(<<"a", "b">>) the str "ab" (three characters go by their names).
Ascii ==
    <<" ", "!", "QUOTATION MARK", "#", "$", "%", "&", "'", "(", ")", "*", "+", ",", "-", ".", "/",
      "0", "1", "2", "3", "4", "5", "6", "7", "8", "9", ":", ";", "<", "=", ">", "?",
      "@", "A", "B", "C", "D", "E", "F", "G", "H", "I", "J", "K", "L", "M", "N", "O",
      "P", "Q", "R", "S", "T", "U", "V", "W", "X", "Y", "Z", "[", "REVERSE SOLIDUS", "]", "^", "_",
      "GRAVE ACCENT", "a", "b", "c", "d", "e", "f", "g", "h", "i", "j", "k", "l", "m", "n", "o",
      "p", "q", "r", "s", "t", "u", "v", "w", "x", "y", "z", "{", "|", "}", "~">>

Ch(c) == 31 + (CHOOSE i \in 1..Len(Ascii) : Ascii[i] = c)

Str(q) == [i \in 1..Len(q) |-> Ch(q[i])]

IsDigit(c) == Ch("0") <= c /\ c <= Ch("9")

DigitVal(c) == c - Ch("0")

RECURSIVE u64_to_string(_)
u64_to_string(v) ==
    IF v < 10 THEN <<Ch("0") + v>>
    ELSE u64_to_string(v \div 10) \o <<Ch("0") + (v % 10)>>

\* ryu writes an f64 of magnitude 1e16 or more in exponent notation.  1e16
\* lies below 2^63; in the word of Bits bits it is placed at 2^(Bits-2).
F64_EXP_FROM == 2^(Bits - 2)

RECURSIVE StripZeros(_)
StripZeros(ds) ==
    IF ds # <<>> /\ ds[Len(ds)] = Ch("0") THEN StripZeros(SubSeq(ds, 1, Len(ds) - 1)) ELSE ds

\* ryu's text of a finite f64: <digits>.<digits> below F64_EXP_FROM (an
\* integer-valued one ends in ".0"), and from there on the shortest digits as
\* <d>[.<ddd>]e+<exponent>
f64_to_string(f) ==
    LET int == u64_to_string(f.mag \div 2)
        sign == IF f.neg THEN Str(<<"-">>) ELSE <<>>
        digits == StripZeros(int \o (IF f.mag % 2 = 1 THEN Str(<<"5">>) ELSE <<>>))
    IN IF f.mag \div 2 < F64_EXP_FROM
       THEN sign \o int \o <<Ch("."), IF f.mag % 2 = 1 THEN Ch("5") ELSE Ch("0")>>
       ELSE sign \o <<digits[1]>>
            \o (IF Len(digits) > 1 THEN Str(<<".">>) \o SubSeq(digits, 2, Len(digits)) ELSE <<>>)
            \o Str(<<"e", "+">>) \o u64_to_string(Len(int) - 1)

\* Display of serde_json::Number: itoa for the integers, ryu for a float
number_to_string(n) ==
    CASE n.k = "PosInt" -> u64_to_string(n.v)
      [] n.k = "NegInt" -> Str(<<"-">>) \o u64_to_string(-n.v)
      [] OTHER -> f64_to_string(n)

bool_to_string(b) == IF b THEN Str(<<"t", "r", "u", "e">>) ELSE Str(<<"f", "a", "l", "s", "e">>)

\* The lowercase mappings of one char to one char, as <<first, last, step,
\* delta>>: the chars first, first + step, ..., last lower to themselves plus
\* delta (core::unicode's LOWERCASE_TABLE; Unicode 17).
LowerRanges ==
    <<
       <<65, 90, 1, 32>>, <<192, 214, 1, 32>>, <<216, 222, 1, 32>>, <<256, 302, 2, 1>>,
       <<306, 310, 2, 1>>, <<313, 327, 2, 1>>, <<330, 374, 2, 1>>, <<376, 376, 1, -121>>,
       <<377, 381, 2, 1>>, <<385, 385, 1, 210>>, <<386, 388, 2, 1>>, <<390, 390, 1, 206>>,
       <<391, 391, 1, 1>>, <<393, 394, 1, 205>>, <<395, 395, 1, 1>>, <<398, 398, 1, 79>>,
       <<399, 399, 1, 202>>, <<400, 400, 1, 203>>, <<401, 401, 1, 1>>, <<403, 403, 1, 205>>,
       <<404, 404, 1, 207>>, <<406, 406, 1, 211>>, <<407, 407, 1, 209>>, <<408, 408, 1, 1>>,
       <<412, 412, 1, 211>>, <<413, 413, 1, 213>>, <<415, 415, 1, 214>>, <<416, 420, 2, 1>>,
       <<422, 422, 1, 218>>, <<423, 423, 1, 1>>, <<425, 425, 1, 218>>, <<428, 428, 1, 1>>,
       <<430, 430, 1, 218>>, <<431, 431, 1, 1>>, <<433, 434, 1, 217>>, <<435, 437, 2, 1>>,
       <<439, 439, 1, 219>>, <<440, 440, 1, 1>>, <<444, 444, 1, 1>>, <<452, 452, 1, 2>>,
       <<453, 453, 1, 1>>, <<455, 455, 1, 2>>, <<456, 456, 1, 1>>, <<458, 458, 1, 2>>,
       <<459, 475, 2, 1>>, <<478, 494, 2, 1>>, <<497, 497, 1, 2>>, <<498, 500, 2, 1>>,
       <<502, 502, 1, -97>>, <<503, 503, 1, -56>>, <<504, 542, 2, 1>>, <<544, 544, 1, -130>>,
       <<546, 562, 2, 1>>, <<570, 570, 1, 10795>>, <<571, 571, 1, 1>>, <<573, 573, 1, -163>>,
       <<574, 574, 1, 10792>>, <<577, 577, 1, 1>>, <<579, 579, 1, -195>>, <<580, 580, 1, 69>>,
       <<581, 581, 1, 71>>, <<582, 590, 2, 1>>, <<880, 882, 2, 1>>, <<886, 886, 1, 1>>,
       <<895, 895, 1, 116>>, <<902, 902, 1, 38>>, <<904, 906, 1, 37>>, <<908, 908, 1, 64>>,
       <<910, 911, 1, 63>>, <<913, 929, 1, 32>>, <<931, 939, 1, 32>>, <<975, 975, 1, 8>>,
       <<984, 1006, 2, 1>>, <<1012, 1012, 1, -60>>, <<1015, 1015, 1, 1>>, <<1017, 1017, 1, -7>>,
       <<1018, 1018, 1, 1>>, <<1021, 1023, 1, -130>>, <<1024, 1039, 1, 80>>, <<1040, 1071, 1, 32>>,
       <<1120, 1152, 2, 1>>, <<1162, 1214, 2, 1>>, <<1216, 1216, 1, 15>>, <<1217, 1229, 2, 1>>,
       <<1232, 1326, 2, 1>>, <<1329, 1366, 1, 48>>, <<4256, 4293, 1, 7264>>, <<4295, 4295, 1, 7264>>,
       <<4301, 4301, 1, 7264>>, <<5024, 5103, 1, 38864>>, <<5104, 5109, 1, 8>>, <<7305, 7305, 1, 1>>,
       <<7312, 7354, 1, -3008>>, <<7357, 7359, 1, -3008>>, <<7680, 7828, 2, 1>>, <<7838, 7838, 1, -7615>>,
       <<7840, 7934, 2, 1>>, <<7944, 7951, 1, -8>>, <<7960, 7965, 1, -8>>, <<7976, 7983, 1, -8>>,
       <<7992, 7999, 1, -8>>, <<8008, 8013, 1, -8>>, <<8025, 8031, 2, -8>>, <<8040, 8047, 1, -8>>,
       <<8072, 8079, 1, -8>>, <<8088, 8095, 1, -8>>, <<8104, 8111, 1, -8>>, <<8120, 8121, 1, -8>>,
       <<8122, 8123, 1, -74>>, <<8124, 8124, 1, -9>>, <<8136, 8139, 1, -86>>, <<8140, 8140, 1, -9>>,
       <<8152, 8153, 1, -8>>, <<8154, 8155, 1, -100>>, <<8168, 8169, 1, -8>>, <<8170, 8171, 1, -112>>,
       <<8172, 8172, 1, -7>>, <<8184, 8185, 1, -128>>, <<8186, 8187, 1, -126>>, <<8188, 8188, 1, -9>>,
       <<8486, 8486, 1, -7517>>, <<8490, 8490, 1, -8383>>, <<8491, 8491, 1, -8262>>, <<8498, 8498, 1, 28>>,
       <<8544, 8559, 1, 16>>, <<8579, 8579, 1, 1>>, <<9398, 9423, 1, 26>>, <<11264, 11311, 1, 48>>,
       <<11360, 11360, 1, 1>>, <<11362, 11362, 1, -10743>>, <<11363, 11363, 1, -3814>>, <<11364, 11364, 1, -10727>>,
       <<11367, 11371, 2, 1>>, <<11373, 11373, 1, -10780>>, <<11374, 11374, 1, -10749>>, <<11375, 11375, 1, -10783>>,
       <<11376, 11376, 1, -10782>>, <<11378, 11378, 1, 1>>, <<11381, 11381, 1, 1>>, <<11390, 11391, 1, -10815>>,
       <<11392, 11490, 2, 1>>, <<11499, 11501, 2, 1>>, <<11506, 11506, 1, 1>>, <<42560, 42604, 2, 1>>,
       <<42624, 42650, 2, 1>>, <<42786, 42798, 2, 1>>, <<42802, 42862, 2, 1>>, <<42873, 42875, 2, 1>>,
       <<42877, 42877, 1, -35332>>, <<42878, 42886, 2, 1>>, <<42891, 42891, 1, 1>>, <<42893, 42893, 1, -42280>>,
       <<42896, 42898, 2, 1>>, <<42902, 42920, 2, 1>>, <<42922, 42922, 1, -42308>>, <<42923, 42923, 1, -42319>>,
       <<42924, 42924, 1, -42315>>, <<42925, 42925, 1, -42305>>, <<42926, 42926, 1, -42308>>, <<42928, 42928, 1, -42258>>,
       <<42929, 42929, 1, -42282>>, <<42930, 42930, 1, -42261>>, <<42931, 42931, 1, 928>>, <<42932, 42946, 2, 1>>,
       <<42948, 42948, 1, -48>>, <<42949, 42949, 1, -42307>>, <<42950, 42950, 1, -35384>>, <<42951, 42953, 2, 1>>,
       <<42955, 42955, 1, -42343>>, <<42956, 42970, 2, 1>>, <<42972, 42972, 1, -42561>>, <<42997, 42997, 1, 1>>,
       <<65313, 65338, 1, 32>>, <<66560, 66599, 1, 40>>, <<66736, 66771, 1, 40>>, <<66928, 66938, 1, 39>>,
       <<66940, 66954, 1, 39>>, <<66956, 66962, 1, 39>>, <<66964, 66965, 1, 39>>, <<68736, 68786, 1, 64>>,
       <<68944, 68965, 1, 32>>, <<71840, 71871, 1, 32>>, <<93760, 93791, 1, 32>>, <<93856, 93880, 1, 27>>,
       <<125184, 125217, 1, 34>> >>

\* The ranges <<first, last>> of the chars with the property Case_Ignorable
\* (Unicode 17)
CaseIgnorableRanges ==
    <<
       <<39, 39>>, <<46, 46>>, <<58, 58>>, <<94, 94>>, <<96, 96>>,
       <<168, 168>>, <<173, 173>>, <<175, 175>>, <<180, 180>>, <<183, 184>>,
       <<688, 879>>, <<884, 885>>, <<890, 890>>, <<900, 901>>, <<903, 903>>,
       <<1155, 1161>>, <<1369, 1369>>, <<1375, 1375>>, <<1425, 1469>>, <<1471, 1471>>,
       <<1473, 1474>>, <<1476, 1477>>, <<1479, 1479>>, <<1524, 1524>>, <<1536, 1541>>,
       <<1552, 1562>>, <<1564, 1564>>, <<1600, 1600>>, <<1611, 1631>>, <<1648, 1648>>,
       <<1750, 1757>>, <<1759, 1768>>, <<1770, 1773>>, <<1807, 1807>>, <<1809, 1809>>,
       <<1840, 1866>>, <<1958, 1968>>, <<2027, 2037>>, <<2042, 2042>>, <<2045, 2045>>,
       <<2070, 2093>>, <<2137, 2139>>, <<2184, 2184>>, <<2192, 2193>>, <<2199, 2207>>,
       <<2249, 2306>>, <<2362, 2362>>, <<2364, 2364>>, <<2369, 2376>>, <<2381, 2381>>,
       <<2385, 2391>>, <<2402, 2403>>, <<2417, 2417>>, <<2433, 2433>>, <<2492, 2492>>,
       <<2497, 2500>>, <<2509, 2509>>, <<2530, 2531>>, <<2558, 2558>>, <<2561, 2562>>,
       <<2620, 2620>>, <<2625, 2626>>, <<2631, 2632>>, <<2635, 2637>>, <<2641, 2641>>,
       <<2672, 2673>>, <<2677, 2677>>, <<2689, 2690>>, <<2748, 2748>>, <<2753, 2757>>,
       <<2759, 2760>>, <<2765, 2765>>, <<2786, 2787>>, <<2810, 2815>>, <<2817, 2817>>,
       <<2876, 2876>>, <<2879, 2879>>, <<2881, 2884>>, <<2893, 2893>>, <<2901, 2902>>,
       <<2914, 2915>>, <<2946, 2946>>, <<3008, 3008>>, <<3021, 3021>>, <<3072, 3072>>,
       <<3076, 3076>>, <<3132, 3132>>, <<3134, 3136>>, <<3142, 3144>>, <<3146, 3149>>,
       <<3157, 3158>>, <<3170, 3171>>, <<3201, 3201>>, <<3260, 3260>>, <<3263, 3263>>,
       <<3270, 3270>>, <<3276, 3277>>, <<3298, 3299>>, <<3328, 3329>>, <<3387, 3388>>,
       <<3393, 3396>>, <<3405, 3405>>, <<3426, 3427>>, <<3457, 3457>>, <<3530, 3530>>,
       <<3538, 3540>>, <<3542, 3542>>, <<3633, 3633>>, <<3636, 3642>>, <<3654, 3662>>,
       <<3761, 3761>>, <<3764, 3772>>, <<3782, 3782>>, <<3784, 3790>>, <<3864, 3865>>,
       <<3893, 3893>>, <<3895, 3895>>, <<3897, 3897>>, <<3953, 3966>>, <<3968, 3972>>,
       <<3974, 3975>>, <<3981, 3991>>, <<3993, 4028>>, <<4038, 4038>>, <<4141, 4144>>,
       <<4146, 4151>>, <<4153, 4154>>, <<4157, 4158>>, <<4184, 4185>>, <<4190, 4192>>,
       <<4209, 4212>>, <<4226, 4226>>, <<4229, 4230>>, <<4237, 4237>>, <<4253, 4253>>,
       <<4348, 4348>>, <<4957, 4959>>, <<5906, 5908>>, <<5938, 5939>>, <<5970, 5971>>,
       <<6002, 6003>>, <<6068, 6069>>, <<6071, 6077>>, <<6086, 6086>>, <<6089, 6099>>,
       <<6103, 6103>>, <<6109, 6109>>, <<6155, 6159>>, <<6211, 6211>>, <<6277, 6278>>,
       <<6313, 6313>>, <<6432, 6434>>, <<6439, 6440>>, <<6450, 6450>>, <<6457, 6459>>,
       <<6679, 6680>>, <<6683, 6683>>, <<6742, 6742>>, <<6744, 6750>>, <<6752, 6752>>,
       <<6754, 6754>>, <<6757, 6764>>, <<6771, 6780>>, <<6783, 6783>>, <<6823, 6823>>,
       <<6832, 6877>>, <<6880, 6891>>, <<6912, 6915>>, <<6964, 6964>>, <<6966, 6970>>,
       <<6972, 6972>>, <<6978, 6978>>, <<7019, 7027>>, <<7040, 7041>>, <<7074, 7077>>,
       <<7080, 7081>>, <<7083, 7085>>, <<7142, 7142>>, <<7144, 7145>>, <<7149, 7149>>,
       <<7151, 7153>>, <<7212, 7219>>, <<7222, 7223>>, <<7288, 7293>>, <<7376, 7378>>,
       <<7380, 7392>>, <<7394, 7400>>, <<7405, 7405>>, <<7412, 7412>>, <<7416, 7417>>,
       <<7468, 7530>>, <<7544, 7544>>, <<7579, 7679>>, <<8125, 8125>>, <<8127, 8129>>,
       <<8141, 8143>>, <<8157, 8159>>, <<8173, 8175>>, <<8189, 8190>>, <<8203, 8207>>,
       <<8216, 8217>>, <<8228, 8228>>, <<8231, 8231>>, <<8234, 8238>>, <<8288, 8292>>,
       <<8294, 8303>>, <<8305, 8305>>, <<8319, 8319>>, <<8336, 8348>>, <<8400, 8432>>,
       <<11388, 11389>>, <<11503, 11505>>, <<11631, 11631>>, <<11647, 11647>>, <<11744, 11775>>,
       <<11823, 11823>>, <<12293, 12293>>, <<12330, 12333>>, <<12337, 12341>>, <<12347, 12347>>,
       <<12441, 12446>>, <<12540, 12542>>, <<40981, 40981>>, <<42232, 42237>>, <<42508, 42508>>,
       <<42607, 42610>>, <<42612, 42621>>, <<42623, 42623>>, <<42652, 42655>>, <<42736, 42737>>,
       <<42752, 42785>>, <<42864, 42864>>, <<42888, 42890>>, <<42993, 42996>>, <<43000, 43001>>,
       <<43010, 43010>>, <<43014, 43014>>, <<43019, 43019>>, <<43045, 43046>>, <<43052, 43052>>,
       <<43204, 43205>>, <<43232, 43249>>, <<43263, 43263>>, <<43302, 43309>>, <<43335, 43345>>,
       <<43392, 43394>>, <<43443, 43443>>, <<43446, 43449>>, <<43452, 43453>>, <<43471, 43471>>,
       <<43493, 43494>>, <<43561, 43566>>, <<43569, 43570>>, <<43573, 43574>>, <<43587, 43587>>,
       <<43596, 43596>>, <<43632, 43632>>, <<43644, 43644>>, <<43696, 43696>>, <<43698, 43700>>,
       <<43703, 43704>>, <<43710, 43711>>, <<43713, 43713>>, <<43741, 43741>>, <<43756, 43757>>,
       <<43763, 43764>>, <<43766, 43766>>, <<43867, 43871>>, <<43881, 43883>>, <<44005, 44005>>,
       <<44008, 44008>>, <<44013, 44013>>, <<64286, 64286>>, <<64434, 64450>>, <<65024, 65039>>,
       <<65043, 65043>>, <<65056, 65071>>, <<65106, 65106>>, <<65109, 65109>>, <<65279, 65279>>,
       <<65287, 65287>>, <<65294, 65294>>, <<65306, 65306>>, <<65342, 65342>>, <<65344, 65344>>,
       <<65392, 65392>>, <<65438, 65439>>, <<65507, 65507>>, <<65529, 65531>>, <<66045, 66045>>,
       <<66272, 66272>>, <<66422, 66426>>, <<67456, 67461>>, <<67463, 67504>>, <<67506, 67514>>,
       <<68097, 68099>>, <<68101, 68102>>, <<68108, 68111>>, <<68152, 68154>>, <<68159, 68159>>,
       <<68325, 68326>>, <<68900, 68903>>, <<68942, 68942>>, <<68969, 68973>>, <<68975, 68975>>,
       <<69291, 69292>>, <<69317, 69317>>, <<69370, 69375>>, <<69446, 69456>>, <<69506, 69509>>,
       <<69633, 69633>>, <<69688, 69702>>, <<69744, 69744>>, <<69747, 69748>>, <<69759, 69761>>,
       <<69811, 69814>>, <<69817, 69818>>, <<69821, 69821>>, <<69826, 69826>>, <<69837, 69837>>,
       <<69888, 69890>>, <<69927, 69931>>, <<69933, 69940>>, <<70003, 70003>>, <<70016, 70017>>,
       <<70070, 70078>>, <<70089, 70092>>, <<70095, 70095>>, <<70191, 70193>>, <<70196, 70196>>,
       <<70198, 70199>>, <<70206, 70206>>, <<70209, 70209>>, <<70367, 70367>>, <<70371, 70378>>,
       <<70400, 70401>>, <<70459, 70460>>, <<70464, 70464>>, <<70502, 70508>>, <<70512, 70516>>,
       <<70587, 70592>>, <<70606, 70606>>, <<70608, 70608>>, <<70610, 70610>>, <<70625, 70626>>,
       <<70712, 70719>>, <<70722, 70724>>, <<70726, 70726>>, <<70750, 70750>>, <<70835, 70840>>,
       <<70842, 70842>>, <<70847, 70848>>, <<70850, 70851>>, <<71090, 71093>>, <<71100, 71101>>,
       <<71103, 71104>>, <<71132, 71133>>, <<71219, 71226>>, <<71229, 71229>>, <<71231, 71232>>,
       <<71339, 71339>>, <<71341, 71341>>, <<71344, 71349>>, <<71351, 71351>>, <<71453, 71453>>,
       <<71455, 71455>>, <<71458, 71461>>, <<71463, 71467>>, <<71727, 71735>>, <<71737, 71738>>,
       <<71995, 71996>>, <<71998, 71998>>, <<72003, 72003>>, <<72148, 72151>>, <<72154, 72155>>,
       <<72160, 72160>>, <<72193, 72202>>, <<72243, 72248>>, <<72251, 72254>>, <<72263, 72263>>,
       <<72273, 72278>>, <<72281, 72283>>, <<72330, 72342>>, <<72344, 72345>>, <<72544, 72544>>,
       <<72546, 72548>>, <<72550, 72550>>, <<72752, 72758>>, <<72760, 72765>>, <<72767, 72767>>,
       <<72850, 72871>>, <<72874, 72880>>, <<72882, 72883>>, <<72885, 72886>>, <<73009, 73014>>,
       <<73018, 73018>>, <<73020, 73021>>, <<73023, 73029>>, <<73031, 73031>>, <<73104, 73105>>,
       <<73109, 73109>>, <<73111, 73111>>, <<73177, 73177>>, <<73459, 73460>>, <<73472, 73473>>,
       <<73526, 73530>>, <<73536, 73536>>, <<73538, 73538>>, <<73562, 73562>>, <<78896, 78912>>,
       <<78919, 78933>>, <<90398, 90409>>, <<90413, 90415>>, <<92912, 92916>>, <<92976, 92982>>,
       <<92992, 92995>>, <<93504, 93506>>, <<93547, 93548>>, <<94031, 94031>>, <<94095, 94111>>,
       <<94176, 94177>>, <<94179, 94180>>, <<94194, 94195>>, <<110576, 110579>>, <<110581, 110587>>,
       <<110589, 110590>>, <<113821, 113822>>, <<113824, 113827>>, <<118528, 118573>>, <<118576, 118598>>,
       <<119143, 119145>>, <<119155, 119170>>, <<119173, 119179>>, <<119210, 119213>>, <<119362, 119364>>,
       <<121344, 121398>>, <<121403, 121452>>, <<121461, 121461>>, <<121476, 121476>>, <<121499, 121503>>,
       <<121505, 121519>>, <<122880, 122886>>, <<122888, 122904>>, <<122907, 122913>>, <<122915, 122916>>,
       <<122918, 122922>>, <<122928, 122989>>, <<123023, 123023>>, <<123184, 123197>>, <<123566, 123566>>,
       <<123628, 123631>>, <<124139, 124143>>, <<124398, 124399>>, <<124643, 124643>>, <<124646, 124646>>,
       <<124654, 124655>>, <<124661, 124661>>, <<124671, 124671>>, <<125136, 125142>>, <<125252, 125259>>,
       <<127995, 127999>>, <<917505, 917505>>, <<917536, 917631>>, <<917760, 917999>> >>

\* The ranges <<first, last>> of the chars with the property Cased
\* (Unicode 17)
CasedRanges ==
    <<
       <<65, 90>>, <<97, 122>>, <<170, 170>>, <<181, 181>>, <<186, 186>>,
       <<192, 214>>, <<216, 246>>, <<248, 442>>, <<444, 447>>, <<452, 659>>,
       <<662, 696>>, <<704, 705>>, <<736, 740>>, <<837, 837>>, <<880, 883>>,
       <<886, 887>>, <<890, 893>>, <<895, 895>>, <<902, 902>>, <<904, 906>>,
       <<908, 908>>, <<910, 929>>, <<931, 1013>>, <<1015, 1153>>, <<1162, 1327>>,
       <<1329, 1366>>, <<1376, 1416>>, <<4256, 4293>>, <<4295, 4295>>, <<4301, 4301>>,
       <<4304, 4346>>, <<4348, 4351>>, <<5024, 5109>>, <<5112, 5117>>, <<7296, 7306>>,
       <<7312, 7354>>, <<7357, 7359>>, <<7424, 7615>>, <<7680, 7957>>, <<7960, 7965>>,
       <<7968, 8005>>, <<8008, 8013>>, <<8016, 8023>>, <<8025, 8025>>, <<8027, 8027>>,
       <<8029, 8029>>, <<8031, 8061>>, <<8064, 8116>>, <<8118, 8124>>, <<8126, 8126>>,
       <<8130, 8132>>, <<8134, 8140>>, <<8144, 8147>>, <<8150, 8155>>, <<8160, 8172>>,
       <<8178, 8180>>, <<8182, 8188>>, <<8305, 8305>>, <<8319, 8319>>, <<8336, 8348>>,
       <<8450, 8450>>, <<8455, 8455>>, <<8458, 8467>>, <<8469, 8469>>, <<8473, 8477>>,
       <<8484, 8484>>, <<8486, 8486>>, <<8488, 8488>>, <<8490, 8493>>, <<8495, 8500>>,
       <<8505, 8505>>, <<8508, 8511>>, <<8517, 8521>>, <<8526, 8526>>, <<8544, 8575>>,
       <<8579, 8580>>, <<9398, 9449>>, <<11264, 11492>>, <<11499, 11502>>, <<11506, 11507>>,
       <<11520, 11557>>, <<11559, 11559>>, <<11565, 11565>>, <<42560, 42605>>, <<42624, 42653>>,
       <<42786, 42887>>, <<42891, 42894>>, <<42896, 42972>>, <<42993, 42998>>, <<43000, 43002>>,
       <<43824, 43866>>, <<43868, 43881>>, <<43888, 43967>>, <<64256, 64262>>, <<64275, 64279>>,
       <<65313, 65338>>, <<65345, 65370>>, <<66560, 66639>>, <<66736, 66771>>, <<66776, 66811>>,
       <<66928, 66938>>, <<66940, 66954>>, <<66956, 66962>>, <<66964, 66965>>, <<66967, 66977>>,
       <<66979, 66993>>, <<66995, 67001>>, <<67003, 67004>>, <<67456, 67456>>, <<67459, 67461>>,
       <<67463, 67504>>, <<67506, 67514>>, <<68736, 68786>>, <<68800, 68850>>, <<68944, 68965>>,
       <<68976, 68997>>, <<71840, 71903>>, <<93760, 93823>>, <<93856, 93880>>, <<93883, 93907>>,
       <<119808, 119892>>, <<119894, 119964>>, <<119966, 119967>>, <<119970, 119970>>, <<119973, 119974>>,
       <<119977, 119980>>, <<119982, 119993>>, <<119995, 119995>>, <<119997, 120003>>, <<120005, 120069>>,
       <<120071, 120074>>, <<120077, 120084>>, <<120086, 120092>>, <<120094, 120121>>, <<120123, 120126>>,
       <<120128, 120132>>, <<120134, 120134>>, <<120138, 120144>>, <<120146, 120485>>, <<120488, 120512>>,
       <<120514, 120538>>, <<120540, 120570>>, <<120572, 120596>>, <<120598, 120628>>, <<120630, 120654>>,
       <<120656, 120686>>, <<120688, 120712>>, <<120714, 120744>>, <<120746, 120770>>, <<120772, 120779>>,
       <<122624, 122633>>, <<122635, 122654>>, <<122661, 122666>>, <<122928, 122989>>, <<125184, 125251>>,
       <<127280, 127305>>, <<127312, 127337>>, <<127344, 127369>> >>

InRanges(c, ranges) ==
    \E i \in 1..Len(ranges) : ranges[i][1] <= c /\ c <= ranges[i][2]

Case_Ignorable(c) == InRanges(c, CaseIgnorableRanges)

Cased(c) == InRanges(c, CasedRanges)

\* 'İ', capital I with dot above, the one char that lowers to two chars
CapitalIDot == 304

\* 'Σ', which str::to_lowercase lowers by its position in the word
CapitalSigma == 931

\* char::to_lowercase: the chars a char lowers to; a char without a lowercase
\* form is unchanged
LowerChar(c) ==
    IF c < 128 THEN (IF Ch("A") <= c /\ c <= Ch("Z") THEN <<c + 32>> ELSE <<c>>)
    ELSE IF c = CapitalIDot THEN <<Ch("i"), 775>>
    ELSE IF \E i \in 1..Len(LowerRanges) :
                /\ LowerRanges[i][1] <= c /\ c <= LowerRanges[i][2]
                /\ (c - LowerRanges[i][1]) % LowerRanges[i][3] = 0
         THEN LET i == CHOOSE j \in 1..Len(LowerRanges) :
                          /\ LowerRanges[j][1] <= c /\ c <= LowerRanges[j][2]
                          /\ (c - LowerRanges[j][1]) % LowerRanges[j][3] = 0
              IN <<c + LowerRanges[i][4]>>
    ELSE <<c>>

\* whether the first char of q that is not Case_Ignorable is Cased
RECURSIVE case_ignorable_then_cased(_)
case_ignorable_then_cased(q) ==
    IF q = <<>> THEN FALSE
    ELSE IF Case_Ignorable(Head(q)) THEN case_ignorable_then_cased(Tail(q))
    ELSE Cased(Head(q))

\* Final_Sigma: a sigma that ends a word lowers to U+03C2, any other to U+03C3
map_uppercase_sigma(from, i) ==
    LET before == [j \in 1..(i - 1) |-> from[i - j]]
        after == SubSeq(from, i + 1, Len(from))
        is_word_final ==
            case_ignorable_then_cased(before) /\ ~case_ignorable_then_cased(after)
    IN IF is_word_final THEN <<962>> ELSE <<963>>

\* the loop of str::to_lowercase from the i-th char on
RECURSIVE lower_from(_, _)
lower_from(s, i) ==
    IF i > Len(s) THEN <<>>
    ELSE (IF s[i] = CapitalSigma THEN map_uppercase_sigma(s, i) ELSE LowerChar(s[i]))
         \o lower_from(s, i + 1)

\* [mutant] a comparison that is case-sensitive
to_lowercase_none(s) == s

to_lowercase(s) == lower_from(s, 1)

\* [mutant] a parse that trims white space first
parse_i64_trim(s) ==
    LET keep == SelectSeq(s, LAMBDA c : c # Ch(" ")) IN
    IF keep = <<>> \/ \E i \in 1..Len(keep) : i > 1 /\ ~IsDigit(keep[i]) THEN [ok |-> FALSE]
    ELSE IF ~IsDigit(keep[1]) /\ (keep[1] \notin {Ch("+"), Ch("-")} \/ Len(keep) = 1) THEN [ok |-> FALSE]
    ELSE LET ds == IF IsDigit(keep[1]) THEN keep ELSE Tail(keep)
             RECURSIVE val(_)
             val(q) == IF q = <<>> THEN 0 ELSE val(SubSeq(q, 1, Len(q) - 1)) * 10 + DigitVal(q[Len(q)])
             v == IF keep[1] = Ch("-") THEN -val(ds) ELSE val(ds)
         IN IF v > I64_MAX \/ v < I64_MIN THEN [ok |-> FALSE] ELSE [ok |-> TRUE, v |-> v]

\* [mutant] a parse that reads the magnitude as a positive i64 and then negates it
parse_i64_negate(s) ==
    LET ds == IF s # <<>> /\ Head(s) \in {Ch("+"), Ch("-")} THEN Tail(s) ELSE s
        RECURSIVE val(_)
        val(q) == IF q = <<>> THEN 0 ELSE val(SubSeq(q, 1, Len(q) - 1)) * 10 + DigitVal(q[Len(q)])
    IN IF ds = <<>> \/ \E i \in 1..Len(ds) : ~IsDigit(ds[i]) THEN [ok |-> FALSE]
       ELSE IF val(ds) > I64_MAX THEN [ok |-> FALSE]
       ELSE [ok |-> TRUE, v |-> IF Head(s) = Ch("-") THEN -val(ds) ELSE val(ds)]

\* str::parse::<i64>: an optional single sign, then one or more decimal
\* digits accumulated with checked_mul and checked_add (checked_sub for a
\* negative number, so that i64::MIN parses); any failure is an Err.
ParseErr == [ok |-> FALSE]
ParseOk(v) == [ok |-> TRUE, v |-> v]

RECURSIVE parse_digits(_, _, _)
parse_digits(digits, acc, positive) ==
    IF digits = <<>> THEN ParseOk(acc)
    ELSE IF ~IsDigit(Head(digits)) THEN ParseErr
    ELSE LET m == acc * 10
             r == IF positive THEN m + DigitVal(Head(digits))
                  ELSE m - DigitVal(Head(digits))
         IN IF m > I64_MAX \/ m < I64_MIN \/ r > I64_MAX \/ r < I64_MIN
            THEN ParseErr
            ELSE parse_digits(Tail(digits), r, positive)

parse_i64(s) ==
    IF s = <<>> THEN ParseErr
    ELSE IF Head(s) \in {Ch("+"), Ch("-")} /\ Len(s) = 1 THEN ParseErr
    ELSE IF Head(s) = Ch("+") THEN parse_digits(Tail(s), 0, TRUE)
    ELSE IF Head(s) = Ch("-") THEN parse_digits(Tail(s), 0, FALSE)
    ELSE parse_digits(s, 0, TRUE)

(************************ FromJsonError, Maybe<T> **************************)
with_message(message) == [msg |-> message]

unexpected == [msg |-> "unexpected error"]

Maybe_Null == [tag |-> "Null"]
Maybe_Strict(v) == [tag |-> "Strict", v |-> v]
Maybe_Relaxed(v) == [tag |-> "Relaxed", v |-> v]
Maybe_Error(e) == [tag |-> "Error", e |-> e]

Ok(v) == [ok |-> TRUE, v |-> v]
Err(e) == [ok |-> FALSE, e |-> e]

strict(m) == IF m.tag = "Strict" THEN Some(m.v) ELSE None

strict_ok(m) ==
    CASE m.tag = "Strict" -> Ok(m.v)
      [] m.tag = "Error" -> Err(m.e)
      [] OTHER -> Err(with_message("no strict value"))

\* dflt_T is Default::default() of T
relaxed(m, dflt_T) ==
    CASE m.tag = "Null" -> dflt_T
      [] m.tag = "Error" -> dflt_T
      [] m.tag = "Strict" -> m.v
      [] m.tag = "Relaxed" -> m.v

default(m, dflt) ==
    CASE m.tag = "Null" -> dflt
      [] m.tag = "Error" -> dflt
      [] m.tag = "Strict" -> m.v
      [] m.tag = "Relaxed" -> m.v

\* [mutant] a default_for_null that hands out a relaxed value
default_for_null_relaxed(m, dflt) ==
    CASE m.tag \in {"Strict", "Relaxed"} -> Some(m.v)
      [] m.tag = "Null" -> Some(dflt)
      [] OTHER -> None

default_for_null(m, dflt) ==
    CASE m.tag = "Strict" -> Some(m.v)
      [] m.tag = "Null" -> Some(dflt)
      [] OTHER -> None

(************************ primitive accessors ******************************)
maybe_string(self, k) ==
    LET g == get(self, k) IN
    IF ~g.some THEN Maybe_Null
    ELSE CASE g.v.t = "Null" -> Maybe_Null
           [] g.v.t = "Bool" -> Maybe_Relaxed(bool_to_string(g.v.b))
           [] g.v.t = "Number" -> Maybe_Relaxed(number_to_string(g.v.n))
           [] g.v.t = "String" -> Maybe_Strict(g.v.s)
           [] g.v.t = "Array" -> Maybe_Error(with_message("type mismatch: array"))
           [] g.v.t = "Object" -> Maybe_Error(with_message("type mismatch: object"))

maybe_bool(self, k) ==
    LET g == get(self, k) IN
    IF ~g.some THEN Maybe_Null
    ELSE CASE g.v.t = "Null" -> Maybe_Null
           [] g.v.t = "Bool" -> Maybe_Strict(g.v.b)
           [] g.v.t = "Number" ->
                IF is_i64(g.v.n) THEN Maybe_Relaxed(as_i64(g.v.n) # 0)
                ELSE IF is_u64(g.v.n) THEN Maybe_Relaxed(as_u64(g.v.n) > 0)
                ELSE IF is_f64(g.v.n) THEN Maybe_Relaxed(f64_nonzero(g.v.n))
                ELSE Maybe_Error(unexpected)
           [] g.v.t = "String" ->
                Maybe_Relaxed(g.v.s # <<>> /\ g.v.s # Str(<<"0">>)
                              /\ to_lowercase(g.v.s) # Str(<<"f", "a", "l", "s", "e">>))
           [] g.v.t = "Array" -> Maybe_Error(with_message("type mismatch: array"))
           [] g.v.t = "Object" -> Maybe_Error(with_message("type mismatch: object"))

\* [mutant] a maybe_int that reads every number through its f64 value
maybe_int_via_f64(self, k) ==
    LET g == get(self, k) IN
    IF ~g.some THEN Maybe_Null
    ELSE CASE g.v.t = "Null" -> Maybe_Null
           [] g.v.t = "Bool" -> IF g.v.b THEN Maybe_Relaxed(1) ELSE Maybe_Relaxed(0)
           [] g.v.t = "Number" ->
                IF is_f64(g.v.n) THEN Maybe_Relaxed(f64_as_i64(g.v.n))
                ELSE Maybe_Relaxed(u64_as_i64(g.v.n.v % Two64))
           [] g.v.t = "String" ->
                LET n == parse_i64(g.v.s) IN
                IF n.ok THEN Maybe_Relaxed(n.v)
                ELSE Maybe_Error(with_message("parseIntError"))
           [] g.v.t = "Array" -> Maybe_Error(with_message("type mismatch: array"))
           [] g.v.t = "Object" -> Maybe_Error(with_message("type mismatch: object"))

maybe_int(self, k) ==
    LET g == get(self, k) IN
    IF ~g.some THEN Maybe_Null
    ELSE CASE g.v.t = "Null" -> Maybe_Null
           [] g.v.t = "Bool" -> IF g.v.b THEN Maybe_Relaxed(1) ELSE Maybe_Relaxed(0)
           [] g.v.t = "Number" ->
                IF is_i64(g.v.n) THEN Maybe_Strict(as_i64(g.v.n))
                ELSE IF is_u64(g.v.n) THEN Maybe_Strict(u64_as_i64(as_u64(g.v.n)))
                ELSE IF is_f64(g.v.n) THEN Maybe_Relaxed(f64_as_i64(g.v.n))
                ELSE Maybe_Error(unexpected)
           [] g.v.t = "String" ->
                LET n == parse_i64(g.v.s) IN
                IF n.ok THEN Maybe_Relaxed(n.v)
                ELSE Maybe_Error(with_message("parseIntError"))
           [] g.v.t = "Array" -> Maybe_Error(with_message("type mismatch: array"))
           [] g.v.t = "Object" -> Maybe_Error(with_message("type mismatch: object"))

maybe_uint(self, k) ==
    LET m == maybe_int(self, k) IN
    CASE m.tag = "Strict" -> Maybe_Strict(i64_as_u64(m.v))
      [] m.tag = "Relaxed" -> Maybe_Relaxed(i64_as_u64(m.v))
      [] m.tag = "Error" -> Maybe_Error(m.e)
      [] m.tag = "Null" -> Maybe_Null

(************************ TryFromJson target types *************************)
\* The crate declares the trait TryFromJson and implements it for no type:
\* the implementors are the caller's.  Two families of target type stand for
\* them here.
\*  - Accepts(S), a type whose conversion succeeds on the nodes of the kinds
\*    in S, holding the node, and fails on every other node;
\*  - Record(index_by, name_by), a record type as the specification describes
\*    an implementor (4.4): its conversion calls the coercion accessors on its
\*    own fields, maybe_int("index") and maybe_string("name"), and combines
\*    the results, each field by one of the crate's combinators: default (a
\*    fallback), relaxed (the type's default) or strict (a required field;
\*    the conversion fails without it).
Kinds == {"Null", "Bool", "Number", "String", "Array", "Object"}

Accepts(S) == [name |-> "Accepts", kinds |-> S]

FieldModes == {"default", "relaxed", "strict"}

Record(index_by, name_by) == [name |-> "Record", index_by |-> index_by, name_by |-> name_by]

\* a field of a record out of the accessor's result m by the combinator `by`
read_field(m, by, dflt, dflt_T) ==
    CASE by = "default" -> Some(default(m, dflt))
      [] by = "relaxed" -> Some(relaxed(m, dflt_T))
      [] by = "strict" -> strict(m)

\* the conversion of a record type
record_from_json(T, data) ==
    LET index == read_field(maybe_int(data, StrKey("index")), T.index_by, 12, 0)
        name == read_field(maybe_string(data, StrKey("name")), T.name_by, <<>>, <<>>)
    IN IF index.some /\ name.some THEN Ok([index |-> index.v, name |-> name.v])
       ELSE Err(with_message("missing field"))

try_from_json(T, value) ==
    IF T.name = "Record" THEN record_from_json(T, value)
    ELSE IF value.t \in T.kinds THEN Ok(value)
    ELSE Err(with_message("not convertible"))

(************************ compound accessors *******************************)
\* [mutant] a maybe_object that converts a null node in place of a missing one
maybe_object_absent_as_null(T, self, k) ==
    LET g == get(self, k)
        t == try_from_json(T, IF g.some THEN g.v ELSE Value_Null)
    IN IF t.ok THEN Maybe_Strict(t.v) ELSE Maybe_Error(t.e)

\* [mutant] a maybe_object that refuses a list node as the primitive accessors do
maybe_object_no_list(T, self, k) ==
    LET g == get(self, k) IN
    IF g.some /\ g.v.t = "Array" THEN Maybe_Error(with_message("type mismatch: array"))
    ELSE IF g.some
    THEN LET t == try_from_json(T, g.v) IN
         IF t.ok THEN Maybe_Strict(t.v) ELSE Maybe_Error(t.e)
    ELSE Maybe_Null

maybe_object(T, self, k) ==
    LET g == get(self, k) IN
    IF g.some
    THEN LET t == try_from_json(T, g.v) IN
         IF t.ok THEN Maybe_Strict(t.v) ELSE Maybe_Error(t.e)
    ELSE Maybe_Null

\* [mutant] a loop that stops at the first element that fails
collect_loop_stop(T, a, collect, clean) ==
    LET RECURSIVE go(_, _)
        go(rest, acc) ==
            IF rest = <<>> THEN <<acc, TRUE>>
            ELSE LET i == try_from_json(T, Head(rest)) IN
                 IF i.ok THEN go(Tail(rest), Append(acc, i.v)) ELSE <<acc, FALSE>>
    IN go(a, collect)

\* the loop of maybe_array over a.iter(): <<collect, clean>> after the elements
RECURSIVE collect_loop(_, _, _, _)
collect_loop(T, a, collect, clean) ==
    IF a = <<>> THEN <<collect, clean>>
    ELSE LET i == try_from_json(T, Head(a)) IN
         IF i.ok THEN collect_loop(T, Tail(a), Append(collect, i.v), clean)
         ELSE collect_loop(T, Tail(a), collect, FALSE)

maybe_array(T, self, k) ==
    LET g == get(self, k) IN
    IF g.some /\ g.v.t = "Array"
    THEN LET r == collect_loop(T, g.v.a, <<>>, TRUE) IN
         IF r[2] THEN Maybe_Strict(r[1]) ELSE Maybe_Relaxed(r[1])
    ELSE IF g.some
    THEN LET t == try_from_json(T, g.v) IN
         IF t.ok THEN Maybe_Relaxed(<<t.v>>) ELSE Maybe_Error(t.e)
    ELSE Maybe_Null

(************************ inputs *******************************************)
\* the decimal numeral of an integer, for the numeric strings of the documents
Numeral(n) == IF n < 0 THEN Str(<<"-">>) \o u64_to_string(-n) ELSE u64_to_string(n)

Bools == {Bool(TRUE), Bool(FALSE)}

Ints == {PosInt(v) : v \in 0..U64_MAX} \cup {NegInt(v) : v \in I64_MIN..(-1)}

\* 0.0, 0.5, 1.5, 23.0, one of the i64 range that is written in exponent
\* notation, and values at and past the limits of i64
FloatMags == {0, 1, 3, 46, 2 * I64_MAX - 6, 2 * I64_MAX + 2, 2 * I64_MAX + 5}

Floats == {Float(neg, mag) : neg \in BOOLEAN, mag \in FloatMags}

Numbers == Ints \cup Floats

Texts ==
    { <<>>, Str(<<"0">>), Str(<<"0", "0">>), Str(<<"0", ".", "0">>), Str(<<" ">>),
      Str(<<"f", "a", "l", "s", "e">>), Str(<<"F", "a", "l", "s", "e">>),
      Str(<<"F", "A", "L", "S", "E">>), Str(<<"f", "a", "l", "s", "E">>),
      Str(<<"F", "A", "L", "S", "E">>) \o <<CapitalIDot>>, Str(<<"T", "R", "U", "E">>),
      Str(<<"T", "r", "u", "e">>), Str(<<"B">>), <<8490>>, <<201>>, <<1040>>, <<CapitalSigma>>,
      Str(<<"A">>) \o <<CapitalSigma>>, Str(<<"A">>) \o <<CapitalSigma>> \o Str(<<"A">>),
      <<7305>>, <<42958>>, <<661, CapitalSigma>>, <<Ch("A"), 2199, CapitalSigma>>,
      <<Ch("f"), Ch("a"), Ch("l"), 383, Ch("e")>>, <<8490, Ch("F"), Ch("A"), Ch("L"), Ch("S"), Ch("E")>>,
      Str(<<"f", "a", "l", "s", "e", " ">>), Str(<<"t", "r", "u", "e">>),
      Str(<<"o", "f", "f">>), Str(<<"n", "o">>), Str(<<"x">>), Str(<<"N", "O">>),
      Str(<<"2", "3">>), Str(<<"4", "2">>), Str(<<"-", "5">>), Str(<<"+", "7">>), Str(<<"-">>), Str(<<"+">>),
      Str(<<"-", "0">>), Str(<<"0", "0", "7">>), Str(<<"1", "x">>), Str(<<" ", "1">>), Str(<<"1", " ">>),
      Str(<<"-", "-", "1">>), Str(<<"+", "-", "1">>), Str(<<"1", ".", "5">>), Str(<<"2", "3", ".", "0">>) }
    \cup { Numeral(n) : n \in (I64_MIN - 1)..(I64_MAX + 1) \cup {U64_MAX} }

Strings == {String(s) : s \in Texts}

Elems == {PosInt(1), String(Str(<<"x">>)), PosInt(3)}

RECURSIVE SeqsUpTo(_, _)
SeqsUpTo(S, n) ==
    IF n = 0 THEN {<<>>}
    ELSE LET shorter == SeqsUpTo(S, n - 1) IN
         shorter \cup {Append(q, e) : q \in {x \in shorter : Len(x) = n - 1}, e \in S}

Arrays == {Array(a) : a \in SeqsUpTo(Elems, MaxArr)}

Objects ==
    { Object(<<>>),
      Object([f \in {"index", "name"} |->
                 IF f = "index" THEN PosInt(5) ELSE String(Str(<<"x">>))]),
      Object([f \in {"index", "name"} |->
                 IF f = "index" THEN String(Str(<<"4", "2">>)) ELSE PosInt(23)]),
      Object([f \in {"index"} |-> Array(<<>>)]),
      Object([f \in {"name"} |-> Value_Null]) }

Children == {Value_Null} \cup Bools \cup Numbers \cup Strings \cup Arrays \cup Objects

\* the document {"k": child}
Doc(child) == Object([f \in {"k"} |-> child])

\* the test's document {"foo": 23, "bar": "42"}
BasicTestDoc ==
    Object([f \in {"foo", "bar"} |->
               IF f = "foo" THEN PosInt(23) ELSE String(Str(<<"4", "2">>))])

Wrapped == {Value_Null, Bool(TRUE), Float(FALSE, 3), NegInt(-1), String(Str(<<"4", "2">>)),
            Array(<<PosInt(1), PosInt(3)>>), Object(<<>>)}

Keys == {StrKey("k"), StrKey("z"), StrKey("foo"), StrKey("bar"), IdxKey(0), IdxKey(1),
         IdxKey(MaxArr)}

\* nodes tried with every key: objects, lists and scalars
Selves ==
    {BasicTestDoc, Object(<<>>), Value_Null, Bool(TRUE), PosInt(0), String(Str(<<"k">>))}
    \cup {Doc(c) : c \in Wrapped} \cup {Array(<<c>>) : c \in Wrapped}
    \cup {Array(<<PosInt(1), String(Str(<<"x">>)), PosInt(3)>>), Array(<<>>)}

Inputs ==
    {<<Doc(c), StrKey("k")>> : c \in Children}
    \cup (Selves \X Keys)

AcceptSets == SUBSET Kinds

RecordTypes == {Record(i, n) : i \in FieldModes, n \in FieldModes}

TargetTypes == RecordTypes \cup {Accepts(S) : S \in AcceptSets}

\* the result type of a primitive accessor
Prim(name) == [name |-> name]

\* Default::default() of the accessor's result type: bool, i64, u64, String, Vec<T>
HasDefault(c) == c.op # "maybe_object"

TypeDefault(c) ==
    CASE c.op = "maybe_bool" -> FALSE
      [] c.op \in {"maybe_int", "maybe_uint"} -> 0
      [] c.op \in {"maybe_string", "maybe_array"} -> <<>>

\* a value of T for a fallback (none of a type no node converts to)
ValuesOf(T) ==
    IF T.name = "Record" THEN {[index |-> 0, name |-> Str(<<"x">>)]}
    ELSE LET vals == <<Value_Null, PosInt(1), String(Str(<<"x">>)), Bool(TRUE), Array(<<>>),
                       Object(<<>>)>>
             held == {i \in 1..Len(vals) : vals[i].t \in T.kinds}
         IN {vals[i] : i \in {j \in held : \A h \in held : j <= h}}

Fallbacks(c) ==
    CASE c.op = "maybe_bool" -> BOOLEAN
      [] c.op = "maybe_int" -> {12, -1}
      [] c.op = "maybe_uint" -> {12, U64_MAX}
      [] c.op = "maybe_string" -> {<<>>, Str(<<"x">>)}
      [] c.op = "maybe_array" -> {<<>>} \cup {<<v>> : v \in ValuesOf(c.T)}
      [] c.op = "maybe_object" -> ValuesOf(c.T)

(************************ the state machine ********************************)
NoCall == [op |-> "none"]
NoResult == [tag |-> "none"]
NoOut == [comb |-> "none"]

Init ==
    /\ \E i \in Inputs : node = i[1] /\ key = i[2]
    /\ call = NoCall
    /\ result = NoResult
    /\ out = NoOut

MaybeBool ==
    /\ call = NoCall
    /\ call' = [op |-> "maybe_bool", T |-> Prim("bool")]
    /\ result' = maybe_bool(node, key)
    /\ UNCHANGED <<node, key, out>>

MaybeInt ==
    /\ call = NoCall
    /\ call' = [op |-> "maybe_int", T |-> Prim("i64")]
    /\ result' = maybe_int(node, key)
    /\ UNCHANGED <<node, key, out>>

MaybeUint ==
    /\ call = NoCall
    /\ call' = [op |-> "maybe_uint", T |-> Prim("u64")]
    /\ result' = maybe_uint(node, key)
    /\ UNCHANGED <<node, key, out>>

MaybeString ==
    /\ call = NoCall
    /\ call' = [op |-> "maybe_string", T |-> Prim("String")]
    /\ result' = maybe_string(node, key)
    /\ UNCHANGED <<node, key, out>>

MaybeArray ==
    /\ call = NoCall
    /\ \E T \in TargetTypes :
         /\ call' = [op |-> "maybe_array", T |-> T]
         /\ result' = maybe_array(T, node, key)
    /\ UNCHANGED <<node, key, out>>

MaybeObject ==
    /\ call = NoCall
    /\ \E T \in TargetTypes :
         /\ call' = [op |-> "maybe_object", T |-> T]
         /\ result' = maybe_object(T, node, key)
    /\ UNCHANGED <<node, key, out>>

Called == call # NoCall /\ out = NoOut

StrictStep ==
    /\ Called
    /\ out' = [comb |-> "strict", ret |-> strict(result)]
    /\ UNCHANGED <<node, key, call, result>>

StrictOkStep ==
    /\ Called
    /\ out' = [comb |-> "strict_ok", ret |-> strict_ok(result)]
    /\ UNCHANGED <<node, key, call, result>>

RelaxedStep ==
    /\ Called
    /\ HasDefault(call)
    /\ out' = [comb |-> "relaxed", ret |-> relaxed(result, TypeDefault(call))]
    /\ UNCHANGED <<node, key, call, result>>

DefaultStep ==
    /\ Called
    /\ \E dflt \in Fallbacks(call) :
         out' = [comb |-> "default", dflt |-> dflt, ret |-> default(result, dflt)]
    /\ UNCHANGED <<node, key, call, result>>

DefaultForNullStep ==
    /\ Called
    /\ \E dflt \in Fallbacks(call) :
         out' = [comb |-> "default_for_null", dflt |-> dflt,
                 ret |-> default_for_null(result, dflt)]
    /\ UNCHANGED <<node, key, call, result>>

Next ==
    \/ MaybeBool
    \/ MaybeInt
    \/ MaybeUint
    \/ MaybeString
    \/ MaybeArray
    \/ MaybeObject
    \/ StrictStep
    \/ StrictOkStep
    \/ RelaxedStep
    \/ DefaultStep
    \/ DefaultForNullStep

Spec == Init /\ [][Next]_vars

(************************ properties ***************************************)
\* what the lookup of the call found
Stored == get(node, key)

StoredIs(kind) == Stored.some /\ Stored.v.t = kind

Primitives == {"maybe_bool", "maybe_int", "maybe_uint", "maybe_string"}

Accessors == Primitives \cup {"maybe_array", "maybe_object"}

\* the number a sequence of decimal digits denotes, from its last digit
RECURSIVE TextValue(_)
TextValue(ds) ==
    IF ds = <<>> THEN 0
    ELSE TextValue(SubSeq(ds, 1, Len(ds) - 1)) * 10 + DigitVal(ds[Len(ds)])

AllDigits(ds) == ds # <<>> /\ \A i \in 1..Len(ds) : IsDigit(ds[i])

\* t is the decimal text of the integer n: a minus sign for a negative n, then
\* the digits of |n| without leading zeros
IsDecimalTextOf(t, n) ==
    LET ds == IF n < 0 THEN Tail(t) ELSE t IN
    /\ t # <<>>
    /\ n < 0 => Head(t) = Ch("-")
    /\ AllDigits(ds)
    /\ Len(ds) > 1 => ds[1] # Ch("0")
    /\ TextValue(ds) = (IF n < 0 THEN -n ELSE n)

\* s is a base-10 signed integer of the i64 range: an optional sign and digits
IsI64Text(s) ==
    LET ds == IF s # <<>> /\ Head(s) \in {Ch("+"), Ch("-")} THEN Tail(s) ELSE s IN
    /\ AllDigits(ds)
    /\ LET v == IF Head(s) = Ch("-") THEN -TextValue(ds) ELSE TextValue(ds) IN
       I64_MIN <= v /\ v <= I64_MAX

\* the integer a float without a fractional part denotes
FloatValue(f) == IF f.neg THEN -(f.mag \div 2) ELSE f.mag \div 2

\* a float that is integer-valued and lies in the i64 range
IntegerValuedI64(f) ==
    f.mag % 2 = 0 /\ I64_MIN <= FloatValue(f) /\ FloatValue(f) <= I64_MAX

\* C1: when the lookup finds nothing, each of the six accessors returns Null,
\* whatever the target type.
C1_AbsentKeyIsNull ==
    (call # NoCall /\ ~Stored.some) => (call.op \in Accessors /\ result = Maybe_Null)

C1_Witness ==
    /\ call = [op |-> "maybe_object", T |-> Accepts({})]
    /\ node = BasicTestDoc /\ key = StrKey("z")
    /\ result = Maybe_Null

\* C2 (as claimed): a key whose stored node is the explicit null yields Null
\* from every accessor and for every target type.
C2_ExplicitNullIsNull ==
    (call # NoCall /\ StoredIs("Null")) => result = Maybe_Null

\* C3 (as claimed): every stored number that is integer-valued and lies in the
\* i64 range is returned by maybe_int as Strict of that value.
C3_IntegerValuedIsStrict ==
    (call.op = "maybe_int" /\ StoredIs("Number")) =>
        LET n == Stored.v.n IN
        /\ (n.k \in {"PosInt", "NegInt"} /\ I64_MIN <= n.v /\ n.v <= I64_MAX)
              => result = Maybe_Strict(n.v)
        /\ (n.k = "Float" /\ IntegerValuedI64(n))
              => result = Maybe_Strict(FloatValue(n))

\* C3 (amended): every number stored as an integer (not as a float) that lies
\* in the i64 range is returned by maybe_int as Strict of that value, and
\* strict() of it is present(n); an integer-valued float in that range is
\* returned as Relaxed of that value.
C3_StoredIntegerIsStrict ==
    (call.op = "maybe_int" /\ StoredIs("Number")) =>
        LET n == Stored.v.n IN
        /\ (n.k \in {"PosInt", "NegInt"} /\ I64_MIN <= n.v /\ n.v <= I64_MAX)
              => /\ result = Maybe_Strict(n.v)
                 /\ out.comb = "strict" => out.ret = Some(n.v)
        /\ (n.k = "Float" /\ IntegerValuedI64(n))
              => /\ result = Maybe_Relaxed(FloatValue(n))
                 /\ out.comb = "strict" => out.ret = None

C3_Witness ==
    /\ call.op = "maybe_int"
    /\ node = BasicTestDoc /\ key = StrKey("foo")
    /\ out = [comb |-> "strict", ret |-> Some(23)]

\* C4: on a stored list, maybe_array returns the elements T's conversion
\* accepts, in their order: Strict when every element converted, Relaxed when
\* one failed; never Error or Null, and nothing but the tag and the list.
C4_ArrayKeepsConvertible ==
    (call.op = "maybe_array" /\ StoredIs("Array")) =>
        LET a == Stored.v.a
            conv == [i \in 1..Len(a) |-> try_from_json(call.T, a[i])]
            kept == SelectSeq(conv, LAMBDA c : c.ok)
        IN /\ result.tag \in {"Strict", "Relaxed"}
           /\ DOMAIN result = {"tag", "v"}
           /\ result.v = [i \in 1..Len(kept) |-> kept[i].v]
           /\ result.tag = "Strict" <=> \A i \in 1..Len(a) : conv[i].ok

C4_Witness ==
    /\ call = [op |-> "maybe_array", T |-> Accepts({"Number"})]
    /\ node = Doc(Array(<<PosInt(1), String(Str(<<"x">>)), PosInt(3)>>)) /\ key = StrKey("k")
    /\ result = Maybe_Relaxed(<<PosInt(1), PosInt(3)>>)

\* C5: default_for_null(f) is present(f) for Null, present(v) for Strict(v)
\* and absent for Relaxed(v) and Error(e), and is present(f) in no other case;
\* default(f) and relaxed() return v for Relaxed(v), and f and the type's
\* default for Error(e).
C5_DefaultForNull ==
    /\ out.comb = "default_for_null" =>
          /\ result.tag = "Null" => out.ret = Some(out.dflt)
          /\ result.tag = "Strict" => out.ret = Some(result.v)
          /\ result.tag \in {"Relaxed", "Error"} => out.ret = None
          /\ out.ret = Some(out.dflt) =>
                (result.tag = "Null" \/ result = Maybe_Strict(out.dflt))
    /\ out.comb = "default" =>
          /\ result.tag = "Relaxed" => out.ret = result.v
          /\ result.tag = "Error" => out.ret = out.dflt
    /\ out.comb = "relaxed" =>
          /\ result.tag = "Relaxed" => out.ret = result.v
          /\ result.tag = "Error" => out.ret = TypeDefault(call)

C5_Witness ==
    /\ call.op = "maybe_int"
    /\ node = BasicTestDoc /\ key = StrKey("bar")
    /\ result = Maybe_Relaxed(42)
    /\ out = [comb |-> "default_for_null", dflt |-> 12, ret |-> None]

\* C6 (as claimed): maybe_object on a stored list, with a record type whose
\* conversion reads its fields through the accessors, returns Error and never
\* Strict.
C6_ListIsNoObject ==
    (call.op = "maybe_object" /\ call.T.name = "Record" /\ StoredIs("Array"))
        => result.tag = "Error"

\* C6 (amended): maybe_object on a stored list hands the list to T's
\* conversion and returns what that gives, Strict(t) when it succeeds and
\* Error(e) with the conversion's own failure when it fails; it checks no node
\* kind itself.  The accessors a record's conversion applies to the list with
\* its field names find nothing and return Null, so a record type that reads
\* every field with a fallback gives Strict of the record of the fallbacks, and
\* a record type with a required field gives Error with its own failure.
C6_ListIsForwarded ==
    (call.op = "maybe_object" /\ StoredIs("Array")) =>
        LET t == try_from_json(call.T, Stored.v) IN
        /\ result = (IF t.ok THEN Maybe_Strict(t.v) ELSE Maybe_Error(t.e))
        /\ maybe_int(Stored.v, StrKey("index")) = Maybe_Null
        /\ maybe_string(Stored.v, StrKey("name")) = Maybe_Null
        /\ call.T.name = "Record" =>
              IF "strict" \in {call.T.index_by, call.T.name_by}
              THEN result = Maybe_Error([msg |-> "missing field"])
              ELSE result = Maybe_Strict(
                       [index |-> IF call.T.index_by = "default" THEN 12 ELSE 0,
                        name |-> <<>>])

C6_Witness ==
    /\ call = [op |-> "maybe_object", T |-> Record("default", "relaxed")]
    /\ node = Doc(Array(<<PosInt(1), PosInt(3)>>)) /\ key = StrKey("k")
    /\ result = Maybe_Strict([index |-> 12, name |-> <<>>])

\* C7: maybe_uint has the tag of maybe_int on the same input and holds its
\* value modulo 2^64; a stored unsigned number above i64::MAX is Strict of a
\* negative value from maybe_int and Strict of the stored value from
\* maybe_uint; a stored negative integer is Strict of a value above i64::MAX.
C7_UintReinterpretsInt ==
    call.op = "maybe_uint" =>
        LET mi == maybe_int(node, key) IN
        /\ result.tag = mi.tag
        /\ result.tag \in {"Strict", "Relaxed"} =>
              /\ result.v = (IF mi.v < 0 THEN mi.v + Two64 ELSE mi.v)
              /\ 0 <= result.v /\ result.v <= U64_MAX
        /\ result.tag = "Error" => result.e = mi.e
        /\ (StoredIs("Number") /\ Stored.v.n.k = "PosInt" /\ Stored.v.n.v > I64_MAX) =>
              /\ mi.tag = "Strict" /\ mi.v < 0
              /\ result = Maybe_Strict(Stored.v.n.v)
        /\ (StoredIs("Number") /\ Stored.v.n.k = "NegInt") =>
              /\ result = Maybe_Strict(Stored.v.n.v + Two64)
              /\ result.v > I64_MAX

C7_Witness ==
    /\ call.op = "maybe_uint"
    /\ node = Doc(NegInt(-1)) /\ key = StrKey("k")
    /\ result = Maybe_Strict(U64_MAX)

\* C8: a primitive accessor returns Error exactly for a stored list ("type
\* mismatch: array"), a stored object ("type mismatch: object") and, from
\* maybe_int and maybe_uint, a stored string that is no base-10 i64.
C8_ErrorCases ==
    call.op \in Primitives =>
        /\ result.tag = "Error" <=>
              \/ StoredIs("Array")
              \/ StoredIs("Object")
              \/ /\ call.op \in {"maybe_int", "maybe_uint"}
                 /\ StoredIs("String")
                 /\ ~IsI64Text(Stored.v.s)
        /\ StoredIs("Array") => result = Maybe_Error([msg |-> "type mismatch: array"])
        /\ StoredIs("Object") => result = Maybe_Error([msg |-> "type mismatch: object"])

C8_Witness ==
    /\ call.op = "maybe_uint"
    /\ node = Doc(String(Numeral(I64_MAX + 1))) /\ key = StrKey("k")
    /\ result.tag = "Error"

\* C9: maybe_bool of a stored string s is Relaxed(b), b false exactly when s
\* is empty, is "0" or is "false" in any letter case.
C9_StringTruthiness ==
    (call.op = "maybe_bool" /\ StoredIs("String")) =>
        LET s == Stored.v.s
            anyCaseFalse ==
                /\ Len(s) = 5
                /\ s[1] \in {Ch("f"), Ch("F")} /\ s[2] \in {Ch("a"), Ch("A")} /\ s[3] \in {Ch("l"), Ch("L")}
                /\ s[4] \in {Ch("s"), Ch("S")} /\ s[5] \in {Ch("e"), Ch("E")}
        IN /\ result = Maybe_Relaxed(~(s = <<>> \/ s = Str(<<"0">>) \/ anyCaseFalse))
           /\ s \in {Str(<<"o", "f", "f">>), Str(<<"n", "o">>), Str(<<"0", "0">>), Str(<<" ">>),
                      Str(<<"0", ".", "0">>)} => result = Maybe_Relaxed(TRUE)

C9_Witness ==
    /\ call.op = "maybe_bool"
    /\ node = Doc(String(Str(<<"o", "f", "f">>))) /\ key = StrKey("k")
    /\ out = [comb |-> "relaxed", ret |-> TRUE]

\* C10: maybe_string of a stored integer n of the i64 range is Relaxed of the
\* decimal text of n, and maybe_int of a stored string holding that text is
\* Relaxed(n); maybe_string of a stored string is Strict of that string.
C10_NumberTextRoundTrip ==
    /\ (call.op = "maybe_string" /\ StoredIs("Number")
          /\ Stored.v.n.k \in {"PosInt", "NegInt"} /\ Stored.v.n.v <= I64_MAX) =>
            /\ result.tag = "Relaxed"
            /\ IsDecimalTextOf(result.v, Stored.v.n.v)
            /\ maybe_int(Doc(String(result.v)), StrKey("k")) = Maybe_Relaxed(Stored.v.n.v)
            /\ out.comb = "relaxed" => out.ret = result.v
    /\ (call.op = "maybe_int" /\ StoredIs("String")) =>
            \A n \in I64_MIN..I64_MAX :
                IsDecimalTextOf(Stored.v.s, n) =>
                    /\ result = Maybe_Relaxed(n)
                    /\ out.comb = "relaxed" => out.ret = n
    /\ (call.op = "maybe_string" /\ StoredIs("String")) =>
            /\ result = Maybe_Strict(Stored.v.s)
            /\ out.comb = "strict" => out.ret = Some(Stored.v.s)

C10_Witness ==
    /\ call.op = "maybe_int"
    /\ node = Doc(String(Numeral(I64_MIN))) /\ key = StrKey("k")
    /\ out = [comb |-> "relaxed", ret |-> I64_MIN]

=============================================================================
